---- MODULE Spec2Model ----
(***************************************************************************)
(* Model of frappe.ui.form.Review                                          *)
(* (src/frappe/public/js/frappe/form/sidebar/review.js).                   *)
(*                                                                         *)
(* One browser session (one event loop) holds the process-wide             *)
(* frappe.boot.points, a Review instance per document view, the dialogs    *)
(* those instances have created, and the remote calls that are in flight.  *)
(* Every action is one event-loop task: a constructor call, a click, a     *)
(* response of the remote ledger together with the promise callbacks it    *)
(* runs.                                                                   *)
(***************************************************************************)
EXTENDS Integers, Sequences, FiniteSets, TLC

VARIABLES
    boot,         \* frappe.boot.points
    ledger,       \* the reviewer's review points at the remote ledger
    alive,        \* alive[v]: the Review instance of view v is constructed
    points,       \* points[v]: this.points of the instance of view v
    button,       \* button[v]: the handler add_review_button bound
    frm,          \* frm[v]: meta.fields, doc and docinfo of view v
    timeline,     \* timeline[v]: number of this.frm.timeline.refresh() calls
    reviews,      \* reviews[v]: the <li> children of this.reviews
    dialogs,      \* the frappe.ui.Dialog objects created so far
    calls,        \* energy_point_log.review calls in flight, each with its
                  \* dialog and its number among that dialog's calls in flight
    refreshes,    \* get_energy_points calls in flight
    nCalls,       \* number of review calls issued
    nRefresh,     \* number of get_energy_points calls issued
    nRejected     \* number of promises returned by update_points that have
                  \* been rejected

vars == <<boot, ledger, alive, points, button, frm, timeline, reviews,
          dialogs, calls, refreshes, nCalls, nRefresh, nRejected>>

(***************************************************************************)
(* Bounds of the model.                                                    *)
(***************************************************************************)
MaxBalance == 2
MaxDialogs == 2
MaxCalls == 2

Views == {"v1", "v2"}

SessionUser == "alice"
Administrator == "Administrator"
Users == {SessionUser, "bob", Administrator}

\* JavaScript values that are not user names: true, false and the empty
\* value (undefined, null or '').
JsTrue == "#true"
JsFalse == "#false"
JsEmpty == ""

Falsy(x) == x \in {JsEmpty, JsFalse}

Abs(n) == IF n < 0 THEN 0 - n ELSE n

\* What the user can enter in the dialog: to_user is an Autocomplete with
\* ignore_validation, points an Int field, review_type a Select.
\* The requests tried: each kind of recipient (involved, the reviewer, the
\* Administrator), both review types, and points below zero, zero, within
\* any positive balance, the largest balance, and above every balance.
Values ==
    { [to_user |-> "bob", review_type |-> "Appreciation", points |-> 1],
      [to_user |-> "bob", review_type |-> "Criticism", points |-> 1],
      [to_user |-> SessionUser, review_type |-> "Appreciation", points |-> MaxBalance],
      [to_user |-> Administrator, review_type |-> "Criticism", points |-> 0],
      [to_user |-> "bob", review_type |-> "Appreciation", points |-> 0 - 1],
      [to_user |-> "bob", review_type |-> "Criticism", points |-> MaxBalance + 1] }

Balances == [review_points : 0..MaxBalance]

(***************************************************************************)
(* Array helpers.                                                          *)
(***************************************************************************)
uniqBy(s) ==
    LET first(i) == \A j \in 1..(i - 1) : s[j] # s[i]
        keep == {i \in 1..Len(s) : first(i)}
        RECURSIVE build(_)
        build(i) == IF i = 0 THEN <<>>
                    ELSE IF i \in keep THEN Append(build(i - 1), s[i])
                    ELSE build(i - 1)
    IN build(Len(s))

(***************************************************************************)
(* The documents of the views.                                             *)
(***************************************************************************)
MetaFields ==
    << [fieldname |-> "reviewer", fieldtype |-> "Link", options |-> "User"],
       [fieldname |-> "customer", fieldtype |-> "Link", options |-> "Customer"],
       [fieldname |-> "title", fieldtype |-> "Data", options |-> ""] >>

DocA ==
    [meta |-> [fields |-> MetaFields],
     doc |-> [owner |-> "bob", reviewer |-> SessionUser,
              customer |-> "bob", title |-> "t"],
     docinfo |->
        [communications |-> << [sender |-> "bob", delivery_status |-> "sent"] >>,
         comments |-> << [owner |-> Administrator] >>,
         versions |-> << [owner |-> "bob"] >>,
         assignments |-> << >>,
         energy_point_logs |-> << >>]]

DocB ==
    [meta |-> [fields |-> MetaFields],
     doc |-> [owner |-> SessionUser, reviewer |-> JsEmpty,
              customer |-> "bob", title |-> "t"],
     docinfo |->
        [communications |-> << [sender |-> JsEmpty, delivery_status |-> "sent"],
                               [sender |-> "bob", delivery_status |-> "draft"] >>,
         comments |-> << [owner |-> "bob"] >>,
         versions |-> << >>,
         assignments |-> << [owner |-> SessionUser] >>,
         energy_point_logs |->
            << [type |-> "Auto", points |-> 2, user |-> "bob"],
               [type |-> "Criticism", points |-> 0 - 1, user |-> "bob"] >>]]

energy_point_logs(v) == frm[v].docinfo.energy_point_logs

(***************************************************************************)
(* get_involved_users, lines 41-62.                                        *)
(***************************************************************************)
IsUserLink(d) == d.fieldtype = "Link" /\ d.options = "User"

FieldName(d) == d.fieldname

\* d.sender && d.delivery_status === 'sent'
SentSender(d) ==
    IF Falsy(d.sender) THEN d.sender
    ELSE IF d.delivery_status = "sent" THEN JsTrue ELSE JsFalse

Owner(d) == d.owner

NotExcluded_administrator_only(user) == user # Administrator

\* !['Administrator', frappe.session.user].includes(user), line 60
NotExcluded(user) == user \notin {Administrator, SessionUser}

Truthy(user) == ~Falsy(user)

get_involved_users(f) ==
    LET fields == SelectSeq(f.meta.fields, IsUserLink)
        user_fields ==
            Append([i \in 1..Len(fields) |-> FieldName(fields[i])], "owner")
        communications == f.docinfo.communications
        comments == f.docinfo.comments
        versions == f.docinfo.versions
        assignments == f.docinfo.assignments
        involved_users ==
            [i \in 1..Len(user_fields) |-> f.doc[user_fields[i]]]
            \o [i \in 1..Len(communications) |-> SentSender(communications[i])]
            \o [i \in 1..Len(comments) |-> Owner(comments[i])]
            \o [i \in 1..Len(versions) |-> Owner(versions[i])]
            \o [i \in 1..Len(assignments) |-> Owner(assignments[i])]
    IN SelectSeq(SelectSeq(uniqBy(involved_users), NotExcluded), Truthy)

Elems(s) == {s[i] : i \in 1..Len(s)}

(***************************************************************************)
(* update_reviewers and setup_detail_popover, lines 128-195.               *)
(***************************************************************************)
subject_by_magnitude(data) ==
    IF data.type = "Appreciation"
    THEN IF Abs(data.points) = 1
         THEN [text |-> "appreciation point", n |-> Abs(data.points)]
         ELSE [text |-> "appreciation points", n |-> Abs(data.points)]
    ELSE IF Abs(data.points) = 1
         THEN [text |-> "criticism point", n |-> Abs(data.points)]
         ELSE [text |-> "criticism points", n |-> Abs(data.points)]

subject(data) ==
    IF data.type = "Appreciation"
    THEN IF data.points = 1
         THEN [text |-> "appreciation point", n |-> Abs(data.points)]
         ELSE [text |-> "appreciation points", n |-> Abs(data.points)]
    ELSE IF data.points = 0 - 1
         THEN [text |-> "criticism point", n |-> Abs(data.points)]
         ELSE [text |-> "criticism points", n |-> Abs(data.points)]

review_pill_nonpositive(log) ==
    [class |-> IF log.points <= 0 THEN "criticism" ELSE "appreciation",
     text |-> Abs(log.points),
     popover |-> subject(log)]

review_pill(log) ==
    [class |-> IF log.points < 0 THEN "criticism" ELSE "appreciation",
     text |-> Abs(log.points),
     popover |-> subject(log)]

IsReviewLog(log) == log.type \in {"Appreciation", "Criticism"}

(***************************************************************************)
(* The state a task works on: the dialog it belongs to (if any), the       *)
(* energy_point_logs, timeline and pill list of its view, the calls in     *)
(* flight, and the calls it has made so far.                               *)
(***************************************************************************)
\* A dialog: the view whose instance created it, whether it is shown, whether
\* its primary action is enabled, the options of its to_user field, and the
\* calls the last task of this dialog made, in program order.
Dialog(v, user_options) ==
    [view |-> v, open |-> TRUE, enabled |-> TRUE, user_options |-> user_options,
     effects |-> <<"show">>]

NoDialog ==
    [view |-> "", open |-> FALSE, enabled |-> FALSE, user_options |-> << >>,
     effects |-> << >>]

World(v, dlg) ==
    [view |-> v,
     dlg |-> dlg,
     logs |-> energy_point_logs(v),
     timeline |-> timeline[v],
     reviews |-> reviews[v],
     calls |-> calls,
     refreshes |-> refreshes,
     nCalls |-> nCalls,
     nRefresh |-> nRefresh]

\* A task of a dialog starts with an empty record of its calls.
Task(w) == [w EXCEPT !.dlg.effects = << >>]

Did(w, what) == [w EXCEPT !.dlg.effects = Append(@, what)]

empty_keeps_children(el) == el

\* this.reviews.empty()
empty(el) == << >>

\* update_reviewers, lines 128-144
update_reviewers(w) ==
    LET review_logs == SelectSeq(w.logs, IsReviewLog)
        review_pills == [i \in 1..Len(review_logs) |-> review_pill(review_logs[i])]
    IN Did([w EXCEPT !.reviews = empty(@) \o review_pills], "update_reviewers")

\* update_points up to the remote call, lines 15-17
update_points(w) ==
    Did([w EXCEPT !.refreshes = @ \cup {[id |-> w.nRefresh + 1,
                                         view |-> w.view,
                                         served |-> FALSE,
                                         data |-> [review_points |-> 0]]},
                  !.nRefresh = @ + 1],
        "update_points")

\* add_review_button, lines 23-40: the click handler bound to the button
add_review_button(pts) ==
    IF pts.review_points = 0 THEN "popover" ELSE "show_review_dialog"

disable_primary_action_noop(w) == Did(w, "disable_primary_action")

\* review_dialog.disable_primary_action(), line 100
disable_primary_action(w) ==
    Did([w EXCEPT !.dlg.enabled = FALSE], "disable_primary_action")

\* review_dialog.enable_primary_action(), line 121
enable_primary_action(w) ==
    Did([w EXCEPT !.dlg.enabled = TRUE], "enable_primary_action")

\* frappe.msgprint(__('You do not have enough points')), line 102
msgprint(w) == Did(w, "msgprint")

\* frappe.xcall('...energy_point_log.review', {...}), lines 104-113
xcall_review(w, d, values) ==
    Did([w EXCEPT !.calls = @ \cup {[dialog |-> d,
                                     n |-> Cardinality({c \in w.calls : c.dialog = d}) + 1,
                                     to_user |-> values.to_user,
                                     points |-> values.points,
                                     review_type |-> values.review_type]},
                  !.nCalls = @ + 1],
        "xcall_review")

InsufficientPoints_off_by_one(values, pts) ==
    values.points > pts.review_points + 1

\* values.points > this.points.review_points, line 101
InsufficientPoints(values, pts) == values.points > pts.review_points

\* primary_action up to the remote call, lines 99-113
primary_action(w, d, pts, values) ==
    LET w1 == disable_primary_action(w)
    IN IF InsufficientPoints(values, pts)
       THEN msgprint(w1)
       ELSE xcall_review(w1, d, values)

\* review_dialog.hide(), line 114
hide(w) == Did([w EXCEPT !.dlg.open = FALSE], "hide")

\* review_dialog.clear(), line 115
clear(w) == Did(w, "clear")

unshift_appends(w, review) ==
    Did([w EXCEPT !.logs = Append(@, review)], "unshift")

\* this.frm.get_docinfo().energy_point_logs.unshift(review), line 116
unshift(w, review) == Did([w EXCEPT !.logs = <<review>> \o @], "unshift")

\* this.frm.timeline.refresh(), line 117
timeline_refresh(w) == Did([w EXCEPT !.timeline = @ + 1], "timeline.refresh")

then_handler_refresh_first(w, review) ==
    update_reviewers(timeline_refresh(unshift(update_points(clear(hide(w))), review)))

\* the then callback, lines 113-120
then_handler(w, review) ==
    update_points(update_reviewers(timeline_refresh(unshift(clear(hide(w)), review))))

finally_handler_noop(w) == w

finally_handler_refreshes(w) == enable_primary_action(update_points(w))

\* the finally callback, lines 120-122
finally_handler(w) == enable_primary_action(w)

balance_decremented(pts, c) == [review_points |-> pts.review_points - c.points]

\* this.points after the then callback of lines 113-119, which does not
\* assign it
balance_after_review(pts, c) == pts

balance_reset_to_zero(pts) == [review_points |-> 0]

\* A cached balance after get_energy_points has failed: the callback of
\* lines 18-21, the only code that assigns it, is skipped
balance_after_rejection(pts) == pts

\* The promise returned by then(...).finally(...) is rejected and nothing
\* handles it, lines 104-122.
unhandled_rejection(w) == Did(w, "unhandledrejection")

(***************************************************************************)
(* The remote ledger (energy_point_log.review and get_energy_points).      *)
(***************************************************************************)
LedgerAccepts(c) ==
    /\ c.points <= ledger
    /\ ledger - c.points \in 0..MaxBalance

LedgerReview(c) ==
    [type |-> c.review_type,
     points |-> IF c.review_type = "Appreciation" THEN c.points ELSE 0 - c.points,
     user |-> c.to_user]

(***************************************************************************)
(* The state after the page has booted: frappe.boot.points holds the       *)
(* ledger's balance, the documents are loaded, no Review instance exists.  *)
(***************************************************************************)
InitFrm == [v \in Views |-> IF v = "v1" THEN DocA ELSE DocB]

Init ==
    /\ boot \in Balances
    /\ ledger = boot.review_points
    /\ alive = [v \in Views |-> FALSE]
    /\ points = [v \in Views |-> [review_points |-> 0]]
    /\ button = [v \in Views |-> "none"]
    /\ frm = InitFrm
    /\ timeline = [v \in Views |-> 0]
    /\ reviews = [v \in Views |-> << >>]
    /\ dialogs = << >>
    /\ calls = {}
    /\ refreshes = {}
    /\ nCalls = 0
    /\ nRefresh = 0
    /\ nRejected = 0

\* What a task leaves behind.
Commit(w, d) ==
    /\ dialogs' = IF d = 0 THEN dialogs ELSE [dialogs EXCEPT ![d] = w.dlg]
    /\ frm' = [frm EXCEPT ![w.view].docinfo.energy_point_logs = w.logs]
    /\ timeline' = [timeline EXCEPT ![w.view] = w.timeline]
    /\ reviews' = [reviews EXCEPT ![w.view] = w.reviews]
    /\ calls' = w.calls
    /\ refreshes' = w.refreshes
    /\ nCalls' = w.nCalls
    /\ nRefresh' = w.nRefresh

\* The Submit button of a dialog runs primary_action only while the dialog
\* is shown and its primary action is enabled.
CanSubmit(dlg) == dlg.open /\ dlg.enabled

\* new frappe.ui.form.Review({parent, frm}), lines 7-14
Constructor(v) ==
    /\ ~alive[v]
    /\ alive' = [alive EXCEPT ![v] = TRUE]
    /\ points' = [points EXCEPT ![v] = boot]
    /\ button' = [button EXCEPT ![v] = add_review_button(boot)]
    /\ Commit(update_reviewers(World(v, NoDialog)), 0)
    /\ UNCHANGED <<boot, ledger, nRejected>>

\* A click on .add-review-btn: show_review_dialog, lines 63-127.  The handler
\* bound at line 38 builds a new dialog on every click.
ShowReviewDialog(v) ==
    /\ alive[v]
    /\ button[v] = "show_review_dialog"
    /\ Len(dialogs) < MaxDialogs
    /\ dialogs' = Append(dialogs, Dialog(v, get_involved_users(frm[v])))
    /\ UNCHANGED <<boot, ledger, alive, points, button, frm, timeline, reviews,
                   calls, refreshes, nCalls, nRefresh, nRejected>>

\* A click on Submit: primary_action(values), lines 99-123
PrimaryAction(d, values) ==
    /\ d \in 1..Len(dialogs)
    /\ CanSubmit(dialogs[d])
    /\ LET v == dialogs[d].view
       IN /\ InsufficientPoints(values, points[v]) \/ nCalls < MaxCalls
          /\ Commit(primary_action(Task(World(v, dialogs[d])), d, points[v], values), d)
    /\ UNCHANGED <<boot, ledger, alive, points, button, nRejected>>

\* The ledger creates the review; then and finally run, lines 113-122
ReviewResolved(c) ==
    /\ c \in calls
    /\ LedgerAccepts(c)
    /\ ledger' = ledger - c.points
    /\ LET d == c.dialog
           v == dialogs[d].view
           w == [Task(World(v, dialogs[d])) EXCEPT !.calls = @ \ {c}]
       IN /\ Commit(finally_handler(then_handler(w, LedgerReview(c))), d)
          /\ points' = [points EXCEPT ![v] = balance_after_review(@, c)]
    /\ UNCHANGED <<boot, alive, button, nRejected>>

\* The call fails; finally runs, lines 120-122
ReviewRejected(c) ==
    /\ c \in calls
    /\ LET d == c.dialog
           v == dialogs[d].view
           w == [Task(World(v, dialogs[d])) EXCEPT !.calls = @ \ {c}]
       IN Commit(unhandled_rejection(finally_handler(w)), d)
    /\ UNCHANGED <<boot, ledger, alive, points, button, nRejected>>

\* The ledger answers get_energy_points with the balance it holds
GetEnergyPoints(r) ==
    /\ r \in refreshes
    /\ ~r.served
    /\ refreshes' = (refreshes \ {r})
                    \cup {[r EXCEPT !.served = TRUE,
                                    !.data = [review_points |-> ledger]]}
    /\ UNCHANGED <<boot, ledger, alive, points, button, frm, timeline, reviews,
                   dialogs, calls, nCalls, nRefresh, nRejected>>

\* The then callback of update_points, lines 18-21
UpdatePointsResolved(r) ==
    /\ r \in refreshes
    /\ r.served
    /\ boot' = r.data
    /\ points' = [points EXCEPT ![r.view] = r.data]
    /\ refreshes' = refreshes \ {r}
    /\ UNCHANGED <<ledger, alive, button, frm, timeline, reviews, dialogs,
                   calls, nCalls, nRefresh, nRejected>>

\* get_energy_points fails: the promise update_points returned is rejected
\* and no callback of it runs, lines 15-22
UpdatePointsRejected(r) ==
    /\ r \in refreshes
    /\ refreshes' = refreshes \ {r}
    /\ boot' = balance_after_rejection(boot)
    /\ points' = [points EXCEPT ![r.view] = balance_after_rejection(@)]
    /\ nRejected' = nRejected + 1
    /\ UNCHANGED <<ledger, alive, button, frm, timeline, reviews,
                   dialogs, calls, nCalls, nRefresh>>

\* update_reviewers called again (a re-render of the sidebar), lines 128-144
UpdateReviewers(v) ==
    /\ alive[v]
    /\ Commit(update_reviewers(World(v, NoDialog)), 0)
    /\ UNCHANGED <<boot, ledger, alive, points, button, nRejected>>

Next ==
    \/ \E v \in Views : Constructor(v)
    \/ \E v \in Views : ShowReviewDialog(v)
    \/ \E d \in 1..MaxDialogs, values \in Values : PrimaryAction(d, values)
    \/ \E c \in calls : ReviewResolved(c)
    \/ \E c \in calls : ReviewRejected(c)
    \/ \E r \in refreshes : GetEnergyPoints(r)
    \/ \E r \in refreshes : UpdatePointsResolved(r)
    \/ \E r \in refreshes : UpdatePointsRejected(r)
    \/ \E v \in Views : UpdateReviewers(v)

Spec == Init /\ [][Next]_vars

(***************************************************************************)
(* A second specification for get_involved_users, update_reviewers and     *)
(* setup_detail_popover as functions of the document: view v1 shows any    *)
(* document of GenDocs, or view v2 holds any energy_point_logs of GenLogs; *)
(* the instances are constructed, dialogs are opened and the pills are     *)
(* rendered again.                                                         *)
(***************************************************************************)
DocUsers == {SessionUser, "bob", "carol", Administrator, JsEmpty}

MetaNoUserFields ==
    << [fieldname |-> "customer", fieldtype |-> "Link", options |-> "Customer"],
       [fieldname |-> "title", fieldtype |-> "Data", options |-> ""] >>

GenCommunications ==
    {<< >>} \cup
    { << [sender |-> u, delivery_status |-> st] >> :
         u \in {"bob", "carol", SessionUser, JsEmpty}, st \in {"sent", "draft"} }

GenComments ==
    { << >>, << [owner |-> "bob"] >>, << [owner |-> "carol"], [owner |-> "carol"] >> }

GenVersions == { << >>, << [owner |-> Administrator] >> }

GenAssignments == { << >>, << [owner |-> SessionUser], [owner |-> "carol"] >> }

GenDocs ==
    { [meta |-> [fields |-> fields],
       doc |-> [owner |-> owner, reviewer |-> reviewer,
                customer |-> "dave", title |-> "t"],
       docinfo |-> [communications |-> communications,
                    comments |-> comments,
                    versions |-> versions,
                    assignments |-> assignments,
                    energy_point_logs |-> << >>]] :
         fields \in {MetaFields, MetaNoUserFields},
         owner \in DocUsers, reviewer \in DocUsers,
         communications \in GenCommunications, comments \in GenComments,
         versions \in GenVersions, assignments \in GenAssignments }

GenLog ==
    [type : {"Appreciation", "Criticism", "Auto"}, points : (0 - 2)..3, user : {"bob"}]

GenLogs ==
    {<< >>} \cup { <<a>> : a \in GenLog } \cup { <<a, b>> : a \in GenLog, b \in GenLog }

InputFrms ==
    { [InitFrm EXCEPT !["v1"] = d] : d \in GenDocs }
    \cup { [InitFrm EXCEPT !["v2"].docinfo.energy_point_logs = l] : l \in GenLogs }

InitInputs ==
    /\ boot = [review_points |-> MaxBalance]
    /\ ledger = boot.review_points
    /\ alive = [v \in Views |-> FALSE]
    /\ points = [v \in Views |-> [review_points |-> 0]]
    /\ button = [v \in Views |-> "none"]
    /\ frm \in InputFrms
    /\ timeline = [v \in Views |-> 0]
    /\ reviews = [v \in Views |-> << >>]
    /\ dialogs = << >>
    /\ calls = {}
    /\ refreshes = {}
    /\ nCalls = 0
    /\ nRefresh = 0
    /\ nRejected = 0

NextInputs ==
    \/ \E v \in Views : Constructor(v)
    \/ \E v \in Views : ShowReviewDialog(v)
    \/ \E v \in Views : UpdateReviewers(v)

SpecInputs == InitInputs /\ [][NextInputs]_vars

(***************************************************************************)
(* Properties.                                                             *)
(***************************************************************************)
ViewOf(d) == dialogs[d].view

InFlight(d) == {c \in calls : c.dialog = d}

\* The pills of the review logs among logs, one per log, in the logs' order.
PillsOf(logs) ==
    LET review_logs == SelectSeq(logs, IsReviewLog)
    IN [i \in 1..Len(review_logs) |-> review_pill(review_logs[i])]

Count(e, x) == Cardinality({i \in 1..Len(e) : e[i] = x})

Before(e, x, y) ==
    \E i, j \in 1..Len(e) : i < j /\ e[i] = x /\ e[j] = y

ThenEffects ==
    {"hide", "clear", "unshift", "timeline.refresh", "update_reviewers",
     "update_points"}

\* The only local state a task of dialog d may change besides the dialog.
LocalStateUnchanged ==
    /\ boot' = boot
    /\ points' = points
    /\ frm' = frm
    /\ reviews' = reviews
    /\ timeline' = timeline
    /\ refreshes' = refreshes
    /\ nRefresh' = nRefresh

\* C1: a submission whose points exceed the balance the instance has cached
\* (this.points.review_points) ends in the 'not enough points' message,
\* issues no review call, and leaves the cached balance, the
\* energy_point_logs and the pills as they were.
C1_InsufficientPointsAborts ==
    [][\A d \in 1..Len(dialogs), values \in Values :
          (PrimaryAction(d, values)
           /\ values.points > points[ViewOf(d)].review_points)
          => /\ dialogs'[d].effects = <<"disable_primary_action", "msgprint">>
             /\ calls' = calls
             /\ nCalls' = nCalls
             /\ LocalStateUnchanged]_vars

\* C1 witness: a dialog whose last task was a submission that validation
\* rejected, with nothing of its view changed.
C1_Witness ==
    \E d \in 1..Len(dialogs) :
        /\ dialogs[d].effects = <<"disable_primary_action", "msgprint">>
        /\ InFlight(d) = {}
        /\ frm[ViewOf(d)] = InitFrm[ViewOf(d)]

\* C2: a dialog has at most one review call in flight, and its primary
\* action is disabled for as long as the call is in flight.
C2_OneCallPerDialog ==
    \A d \in 1..Len(dialogs) :
        /\ Cardinality(InFlight(d)) <= 1
        /\ InFlight(d) # {} => ~dialogs[d].enabled

\* C2 witness: dialogs of two different views have calls in flight at the
\* same time.
C2_Witness ==
    \E c1, c2 \in calls :
        /\ c1.dialog # c2.dialog
        /\ ViewOf(c1.dialog) # ViewOf(c2.dialog)
        /\ ~dialogs[c1.dialog].enabled
        /\ ~dialogs[c2.dialog].enabled

\* C3: the step in which a review call settles, resolved or rejected, leaves
\* the primary action of its dialog enabled; enable_primary_action runs once,
\* after every call of the then callback, which has run if the call resolved.
C3_SettleEnables ==
    [][\A c \in calls :
          (ReviewResolved(c) \/ ReviewRejected(c))
          => LET e == dialogs'[c.dialog].effects
             IN /\ dialogs'[c.dialog].enabled
                /\ c \notin calls'
                /\ Count(e, "enable_primary_action") = 1
                /\ \A x \in ThenEffects : ~Before(e, "enable_primary_action", x)
                /\ ReviewResolved(c)
                   => \A x \in ThenEffects : Before(e, x, "enable_primary_action")]_vars

\* C3 witness: one dialog re-enabled after its call resolved and another
\* re-enabled after its call was rejected.
C3_Witness ==
    \E d1, d2 \in 1..Len(dialogs) :
        /\ dialogs[d1].enabled
        /\ Before(dialogs[d1].effects, "update_points", "enable_primary_action")
        /\ dialogs[d2].enabled
        /\ dialogs[d2].effects = <<"enable_primary_action", "unhandledrejection">>

\* C4: after a submission that validation rejected, the primary action of the
\* dialog is enabled.
C4_ValidationFailureReenables ==
    [][\A d \in 1..Len(dialogs), values \in Values :
          (PrimaryAction(d, values)
           /\ values.points > points[ViewOf(d)].review_points)
          => dialogs'[d].enabled]_vars

\* C5: the energy_point_logs of a view change only in a step in which a
\* review call of that view resolves, and that step makes them the record
\* the ledger returned followed by the logs as they were.
C5_HistoryPrependOnly ==
    [][/\ \A v \in Views :
            frm'[v].docinfo.energy_point_logs # frm[v].docinfo.energy_point_logs
            => \E c \in calls : ReviewResolved(c) /\ ViewOf(c.dialog) = v
       /\ \A c \in calls :
            ReviewResolved(c)
            => LET v == ViewOf(c.dialog)
               IN /\ frm'[v].docinfo.energy_point_logs
                        = <<LedgerReview(c)>> \o frm[v].docinfo.energy_point_logs
                  /\ Len(frm'[v].docinfo.energy_point_logs)
                        = Len(frm[v].docinfo.energy_point_logs) + 1]_vars

\* C5 witness: a view that had logs when it loaded has one more after a
\* successful submission.
C5_Witness ==
    \E v \in Views :
        /\ InitFrm[v].docinfo.energy_point_logs # << >>
        /\ timeline[v] = 1
        /\ Len(energy_point_logs(v)) = Len(InitFrm[v].docinfo.energy_point_logs) + 1

\* C6: the step in which a review call is rejected changes no local state,
\* issues no get_energy_points call and no review call, and leaves the dialog
\* shown with its primary action enabled.
C6_FailureMutatesNothing ==
    [][\A c \in calls :
          ReviewRejected(c)
          => /\ LocalStateUnchanged
             /\ calls' = calls \ {c}
             /\ nCalls' = nCalls
             /\ dialogs'[c.dialog].open
             /\ dialogs'[c.dialog].enabled
             /\ \A d \in 1..Len(dialogs) : d # c.dialog => dialogs'[d] = dialogs[d]]_vars

\* C6 witness: a dialog still shown and enabled after its call was rejected,
\* with no call of it in flight.
C6_Witness ==
    \E d \in 1..Len(dialogs) :
        /\ dialogs[d].effects = <<"enable_primary_action", "unhandledrejection">>
        /\ dialogs[d].open
        /\ dialogs[d].enabled
        /\ InFlight(d) = {}
        /\ nCalls > 0

\* C7: every review call in flight names a to_user that get_involved_users
\* returns for the document of its view.
C7_RecipientInvolved ==
    \A c \in calls :
        c.to_user \in Elems(get_involved_users(frm[ViewOf(c.dialog)]))

\* C8: every review call in flight has points > 0.
C8_PointsPositive == \A c \in calls : c.points > 0

\* C9: the step in which a review call resolves makes each of unshift,
\* timeline.refresh, update_reviewers, update_points and
\* enable_primary_action once and in this order; after it the logs start
\* with the new record, the pills are those of the new logs, the timeline
\* has been refreshed once more and one more get_energy_points call, of
\* this view, is in flight.
C9_ReconcileOrder ==
    [][\A c \in calls :
          ReviewResolved(c)
          => LET v == ViewOf(c.dialog)
                 e == dialogs'[c.dialog].effects
                 order == <<"unshift", "timeline.refresh", "update_reviewers",
                            "update_points", "enable_primary_action">>
             IN /\ \A i \in 1..Len(order) : Count(e, order[i]) = 1
                /\ \A i \in 1..(Len(order) - 1) : Before(e, order[i], order[i + 1])
                /\ frm'[v].docinfo.energy_point_logs
                      = <<LedgerReview(c)>> \o frm[v].docinfo.energy_point_logs
                /\ timeline'[v] = timeline[v] + 1
                /\ reviews'[v] = PillsOf(frm'[v].docinfo.energy_point_logs)
                /\ nRefresh' = nRefresh + 1
                /\ \E r \in refreshes' :
                      /\ r \notin refreshes
                      /\ r.view = v
                      /\ ~r.served
                      /\ refreshes' = refreshes \cup {r}]_vars

\* C9 witness: a submission has succeeded; its record is a review log at the
\* head of the logs, its pill is shown, and the refresh it issued is in
\* flight.
C9_Witness ==
    \E d \in 1..Len(dialogs) :
        /\ Before(dialogs[d].effects, "update_points", "enable_primary_action")
        /\ timeline[ViewOf(d)] = 1
        /\ Len(reviews[ViewOf(d)]) > 0
        /\ reviews[ViewOf(d)][1] = review_pill(energy_point_logs(ViewOf(d))[1])
        /\ \E r \in refreshes : r.view = ViewOf(d)

\* C10: the pills of a constructed instance are exactly the pills of the
\* Appreciation and Criticism logs of its document, one per log, in the
\* logs' order; calling update_reviewers again changes nothing.
C10_PillsAreFilteredHistory ==
    \A v \in Views :
        alive[v] => reviews[v] = PillsOf(energy_point_logs(v))

\* C10 witness: after a successful submission a view whose logs hold a log
\* that is no review shows fewer pills than it has logs, and at least two.
C10_Witness ==
    \E v \in Views :
        /\ alive[v]
        /\ timeline[v] > 0
        /\ \E i \in 1..Len(energy_point_logs(v)) : ~IsReviewLog(energy_point_logs(v)[i])
        /\ Len(reviews[v]) >= 2
        /\ Len(reviews[v]) < Len(energy_point_logs(v))

\* The review logs of view v, the logs update_reviewers renders.
ReviewLogs(v) == SelectSeq(energy_point_logs(v), IsReviewLog)

\* C11: the options get_involved_users gave a dialog never hold the acting
\* user, never the Administrator, never an empty or false entry, and no
\* entry twice.
C11_InvolvedEligible ==
    \A d \in 1..Len(dialogs) :
        LET u == dialogs[d].user_options
        IN /\ \A i \in 1..Len(u) :
                /\ u[i] # SessionUser
                /\ u[i] # Administrator
                /\ u[i] \notin {JsEmpty, JsFalse}
           /\ \A i, j \in 1..Len(u) : i # j => u[i] # u[j]

\* C11 witness: a dialog of a document owned by the acting user, with an
\* empty reviewer, the Administrator among its versions and the same
\* comment owner twice, whose options are that one owner.
C11_Witness ==
    \E d \in 1..Len(dialogs) :
        LET f == frm[ViewOf(d)]
        IN /\ f.doc.owner = SessionUser
           /\ f.doc.reviewer = JsEmpty
           /\ f.docinfo.versions # << >>
           /\ Len(f.docinfo.comments) = 2
           /\ f.docinfo.communications = << >>
           /\ dialogs[d].user_options = <<"carol">>

\* The users involved in document f as the specification lists them: the
\* owner, the value of every Link to User field, the senders of the sent
\* communications, the owners of the comments, versions and assignments,
\* without empty entries, the Administrator and the acting user.
InvolvedBySources(f) ==
    ( {f.doc.owner}
      \cup { f.doc[f.meta.fields[i].fieldname] :
                i \in {k \in 1..Len(f.meta.fields) :
                          /\ f.meta.fields[k].fieldtype = "Link"
                          /\ f.meta.fields[k].options = "User"} }
      \cup { f.docinfo.communications[i].sender :
                i \in {k \in 1..Len(f.docinfo.communications) :
                          f.docinfo.communications[k].delivery_status = "sent"} }
      \cup { f.docinfo.comments[i].owner : i \in 1..Len(f.docinfo.comments) }
      \cup { f.docinfo.versions[i].owner : i \in 1..Len(f.docinfo.versions) }
      \cup { f.docinfo.assignments[i].owner : i \in 1..Len(f.docinfo.assignments) } )
    \ {JsEmpty, Administrator, SessionUser}

\* C12: the options get_involved_users gave a dialog are exactly the users
\* involved in the document of its view.
C12_InvolvedExactly ==
    \A d \in 1..Len(dialogs) :
        Elems(dialogs[d].user_options) = InvolvedBySources(frm[ViewOf(d)])

\* C13: the step in which get_energy_points fails leaves frappe.boot.points
\* and every this.points as they were, and the promise update_points
\* returned is rejected.
C13_RefreshFailureRetains ==
    [][\A r \in refreshes :
          UpdatePointsRejected(r)
          => /\ boot' = boot
             /\ points' = points
             /\ nRejected' = nRejected + 1]_vars

\* C13 witness: a refresh has failed and the balance cached both
\* process-wide and in an instance is still above zero.
C13_Witness ==
    /\ nRejected > 0
    /\ boot.review_points > 0
    /\ \E v \in Views : alive[v] /\ timeline[v] > 0 /\ points[v] = boot

\* C14: frappe.boot.points and the this.points of a constructed instance
\* change only in a step in which the then callback of update_points runs;
\* in particular the step in which a review call resolves leaves both as
\* they were.
C14_BalanceChangesOnlyOnRefresh ==
    [][/\ (boot' # boot \/ \E v \in Views : alive[v] /\ points'[v] # points[v])
          => \E r \in refreshes : UpdatePointsResolved(r)
       /\ \A c \in calls :
             ReviewResolved(c) => boot' = boot /\ points' = points]_vars

\* C14 witness: a submission that spent points has succeeded and its refresh
\* is still in flight; both cached balances still hold the value from before
\* the spend.
C14_Witness ==
    \E v \in Views :
        /\ timeline[v] > 0
        /\ \E r \in refreshes : r.view = v
        /\ points[v] = boot
        /\ boot.review_points > ledger

\* Every review call in flight and every review made so far names an
\* involved user and has points above zero (stored below zero for a
\* Criticism).
OnlyValidRequests ==
    /\ \A c \in calls :
          /\ c.points > 0
          /\ c.to_user \in Elems(get_involved_users(frm[ViewOf(c.dialog)]))
    /\ \A v \in Views :
          \A i \in 1..Len(energy_point_logs(v)) :
             LET log == energy_point_logs(v)[i]
             IN /\ log.user \in Elems(get_involved_users(frm[v]))
                /\ IF log.type = "Criticism" THEN log.points < 0 ELSE log.points > 0

\* C15: the this.points of every constructed instance equals
\* frappe.boot.points (stated for the runs whose requests are all valid).
C15_InstancesShareBalance ==
    OnlyValidRequests => \A v \in Views : alive[v] => points[v] = boot

\* C16: whenever the balance an instance has cached is 0, its button is in
\* the popover state and does not open the dialog (stated for the runs
\* whose requests are all valid).
C16_ExhaustedDisablesTrigger ==
    OnlyValidRequests
    => \A v \in Views :
          (alive[v] /\ points[v].review_points = 0) => button[v] = "popover"

\* C17: no task of a dialog ends with a rejected promise that nothing
\* handles.
C17_NoUnhandledRejection ==
    \A d \in 1..Len(dialogs) :
        \A i \in 1..Len(dialogs[d].effects) :
            dialogs[d].effects[i] # "unhandledrejection"

\* C18: the pill of every review log shows the magnitude of its points and
\* has class criticism exactly when the points are below zero and class
\* appreciation otherwise, whatever the type of the log.
C18_PillClassBySign ==
    \A v \in Views :
        alive[v]
        => /\ Len(reviews[v]) = Len(ReviewLogs(v))
           /\ \A i \in 1..Len(ReviewLogs(v)) :
                LET log == ReviewLogs(v)[i]
                    pill == reviews[v][i]
                IN /\ pill.text >= 0
                   /\ pill.text = log.points \/ pill.text = 0 - log.points
                   /\ pill.class \in {"criticism", "appreciation"}
                   /\ pill.class = "criticism" <=> log.points < 0
                   /\ log.points = 3 => pill.class = "appreciation"
                   /\ log.points = 0 - 2 => pill.class = "criticism"
                   /\ log.points = 0 => pill.class = "appreciation"

\* C18 witness: a Criticism log with 0 points is shown as appreciation and
\* an Appreciation log with -2 points as criticism.
C18_Witness ==
    \E v \in Views :
        /\ alive[v]
        /\ Len(ReviewLogs(v)) = 2
        /\ ReviewLogs(v)[1].type = "Criticism"
        /\ ReviewLogs(v)[1].points = 0
        /\ reviews[v][1].class = "appreciation"
        /\ ReviewLogs(v)[2].type = "Appreciation"
        /\ ReviewLogs(v)[2].points = 0 - 2
        /\ reviews[v][2].class = "criticism"
        /\ reviews[v][2].text = 2

\* C19: the detail text of the pill of every review log is the singular
\* appreciation phrase exactly when the log is an Appreciation of 1 point,
\* the plural appreciation phrase for every other Appreciation, the singular
\* criticism phrase exactly when the log is no Appreciation and has -1
\* points, the plural criticism phrase otherwise; the number shown is the
\* magnitude of the points.
C19_DetailPhrasing ==
    \A v \in Views :
        alive[v]
        => /\ Len(reviews[v]) = Len(ReviewLogs(v))
           /\ \A i \in 1..Len(ReviewLogs(v)) :
                LET log == ReviewLogs(v)[i]
                    detail == reviews[v][i].popover
                IN /\ detail.text = "appreciation point"
                      <=> (log.type = "Appreciation" /\ log.points = 1)
                   /\ detail.text = "appreciation points"
                      <=> (log.type = "Appreciation" /\ log.points # 1)
                   /\ detail.text = "criticism point"
                      <=> (log.type # "Appreciation" /\ log.points = 0 - 1)
                   /\ detail.text = "criticism points"
                      <=> (log.type # "Appreciation" /\ log.points # 0 - 1)
                   /\ detail.n >= 0
                   /\ detail.n = log.points \/ detail.n = 0 - log.points

\* C19 witness: an Appreciation of 1 point and a Criticism of -1 points are
\* both shown with the singular phrase.
C19_Witness ==
    \E v \in Views :
        /\ alive[v]
        /\ Len(ReviewLogs(v)) = 2
        /\ ReviewLogs(v)[1] = [type |-> "Appreciation", points |-> 1, user |-> "bob"]
        /\ reviews[v][1].popover = [text |-> "appreciation point", n |-> 1]
        /\ ReviewLogs(v)[2] = [type |-> "Criticism", points |-> 0 - 1, user |-> "bob"]
        /\ reviews[v][2].popover = [text |-> "criticism point", n |-> 1]

\* C20: once at least two refreshes have been issued and all of them have
\* settled, none rejected, frappe.boot.points holds the ledger's balance.
\* (The ledger's balance changes only in a step that issues a refresh, so
\* with no refresh in flight it is the value the ledger returned for the
\* refresh issued last.)  Stated for the runs whose requests are all valid.
C20_LatestRefreshWins ==
    (OnlyValidRequests /\ nRefresh >= 2 /\ refreshes = {} /\ nRejected = 0)
    => boot.review_points = ledger

====
